---- MODULE Spec2Model ----
(***************************************************************************)
(* A model of chromium_profile_cli/leveldb.py: the raw LevelDB reader.     *)
(*                                                                         *)
(*   SpecLogFrag   _iter_log_batches: reassembly of log fragments          *)
(*   SpecLogBatch  _iter_log_file: decoding of the batches into records    *)
(*   SpecSnappy    _snappy_decompress: one raw Snappy frame                *)
(*   SpecRecord    Record, and the records made from table and log entries *)
(*   SpecScan      iter_leveldb_records: the files of a directory in order *)
(*   SpecVarint    _read_le_varint: one varint read from a stream          *)
(*                                                                         *)
(* Byte strings are sequences of integers 0..255; a stream position is the *)
(* 0-based offset that tell() returns.                                     *)
(***************************************************************************)
EXTENDS Integers, Sequences, FiniteSets, TLC

VARIABLES
    \* ---- _iter_log_batches ----
    logFile,      \* the bytes of the .log file
    fpos,         \* offset of f, the open file
    chunk,        \* the physical block last read (f.read(_LOG_BLOCK_SIZE))
    bpos,         \* buf.tell() within the chunk
    in_record,    \* a FIRST has been seen and not yet closed
    block,        \* the reassembly buffer
    batches,      \* history: the payloads yielded, each with the fragment that caused it
    frags,        \* history: the fragments parsed, in order
    logpc,        \* "chunk" (outer while), "frag" (inner while), "done", "off"
    \* ---- _iter_log_file ----
    logBatches,   \* the batch payloads that _iter_log_batches yields
    written,      \* history: what the writer put in the first batch
    bidx,         \* the batch being decoded (1-based)
    rpos,         \* buf.tell() within the batch
    seq,          \* the base sequence of the batch header
    count,        \* the record count of the batch header
    ridx,         \* i, the loop index within the batch
    records,      \* history: the Records yielded, each with its batch and index
    recpc,        \* "batch" (for batch in ...), "record" (for i in range), "done", "off"
    \* ---- _snappy_decompress ----
    data,         \* the bytes of the compressed stream
    declared,     \* history: the length the writer put in the prefix (-1: none)
    dpos,         \* data.tell()
    uncompressed_length,  \* the varint read first: [none, value]
    out,          \* the bytes written to out
    copies,       \* history: the copy elements executed
    outcome,      \* "" while running, "ok" on return, else the exception raised
    snappc,       \* "start", "loop", "done", "off"
    \* ---- Record ----
    entry,        \* the (key, value) entry a reader decoded
    origin,       \* history: what made the record: "table", "log", "new"
    rec,          \* the Record made of it (<<>>: none, <<r>>: the record r)
    recErr,       \* the exception raised making it, "" when none
    user_key,     \* <<>>, or <<k>> once rec.user_key was read and gave k
    synpc,        \* "entry", "record", "done", "off"
    \* ---- iter_leveldb_records ----
    is_dir,       \* db_path.is_dir()
    dirEntries,   \* db_path.iterdir(), in the order the system lists it
    files,        \* the list of (file_no, path, ext), sorted once listed
    fidx,         \* the file of the for loop (1-based)
    blk,          \* the data block of a table, or the batch of a log (1-based)
    eidx,         \* the entry of the block, or the record of the batch (1-based)
    scanOut,      \* history: the Records yielded, each with its file and place
    scanErr,      \* the exception raised to the consumer, "" when none
    scanpc,       \* "start", "files", "table", "entries", "log", "done", "off"
    \* ---- _read_le_varint ----
    stream,       \* the bytes of the stream, read from its start
    google32,     \* the is_google_32bit argument
    vpos,         \* stream.tell()
    vi,           \* i, the loop index
    vresult,      \* result, the value accumulated
    vret,         \* <<>> while running, <<r>> once the function returned r
    varpc         \* "loop", "done", "off"

logVars == <<logFile, fpos, chunk, bpos, in_record, block, batches, frags, logpc>>
recVars == <<logBatches, written, bidx, rpos, seq, count, ridx, records, recpc>>
snapVars == <<data, declared, dpos, uncompressed_length, out, copies, outcome, snappc>>
synVars == <<entry, origin, rec, recErr, user_key, synpc>>
scanVars == <<is_dir, dirEntries, files, fidx, blk, eidx, scanOut, scanErr, scanpc>>

varintVars == <<stream, google32, vpos, vi, vresult, vret, varpc>>

vars == <<logVars, recVars, snapVars, synVars, scanVars, varintVars>>

\* ------------------------------------------------------------------------
\* Bounds of the model
\* ------------------------------------------------------------------------

\* the size of a physical log block, scaled down from 32768 (leveldb.py:216)
LOG_BLOCK_SIZE == 16
\* fragments written after the first physical block
MaxTailFrags == 1
\* bytes torn off the end of an input
MaxCut == 1
\* records written in a log batch
MaxRecs == 2
\* bytes torn off the end of a log batch
MaxTear == 3
\* elements in a Snappy stream
MaxElems == 2
\* the largest length declared in a Snappy prefix
MaxDeclared == 7
\* bytes of user key before the 8-byte trailer of a table key
MaxUserKey == 2
\* entries in the directory
MaxEntries == 3
\* bytes in a stream that a varint is read from
MaxStream == 5

\* ------------------------------------------------------------------------
\* Bytes and streams
\* ------------------------------------------------------------------------

Min(a, b) == IF a < b THEN a ELSE b
Max(a, b) == IF a < b THEN b ELSE a

\* stream.read(n) at offset pos: at most n bytes, fewer at the end
Read(buf, pos, n) == SubSeq(buf, pos + 1, Min(pos + n, Len(buf)))

\* struct.unpack of a little-endian unsigned integer
RECURSIVE UnpackLE(_)
UnpackLE(bytes) ==
    IF bytes = <<>> THEN 0 ELSE Head(bytes) + 256 * UnpackLE(Tail(bytes))

\* struct.pack of a little-endian unsigned integer on n bytes
RECURSIVE PackLE(_, _)
PackLE(v, n) == IF n = 0 THEN <<>> ELSE <<v % 256>> \o PackLE(v \div 256, n - 1)

RECURSIVE Concat(_)
Concat(ss) == IF ss = <<>> THEN <<>> ELSE Head(ss) \o Concat(Tail(ss))

\* the sequences over S of length at most n
SeqsUpTo(S, n) == UNION {[1..k -> S] : k \in 0..n}

\* s without its last n elements
DropLast(s, n) == SubSeq(s, 1, Max(Len(s) - n, 0))

\* ========================================================================
\* .log files: fragment reassembly (_iter_log_batches)
\* ========================================================================

LOG_FULL == 1
LOG_FIRST == 2
LOG_MIDDLE == 3
LOG_LAST == 4
LOG_HEADER_SIZE == 7

\* the fragments a writer may put in a file; type 0 is zero padding, an unknown type
FragTypes == {0, LOG_FULL, LOG_FIRST, LOG_MIDDLE, LOG_LAST}
FragPayloads == {<<1>>, <<2, 3>>}
Fragments == [type : FragTypes, payload : FragPayloads]

\* a fragment on disk: 4-byte CRC, 2-byte length, 1-byte type, payload
EncodeFragment(fr) ==
    <<0, 0, 0, 0>> \o PackLE(Len(fr.payload), 2) \o <<fr.type>> \o fr.payload

RECURSIVE EncodeFragments(_)
EncodeFragments(frs) ==
    IF frs = <<>> THEN <<>>
    ELSE EncodeFragment(Head(frs)) \o EncodeFragments(Tail(frs))

ZeroPad(bytes, n) == bytes \o [k \in 1..(n - Len(bytes)) |-> 0]

\* a first physical block (zero padded to the block size) followed by a last one
LogFileBytes(head, tail, cut) ==
    DropLast((IF head = <<>> THEN <<>>
              ELSE ZeroPad(EncodeFragments(head), LOG_BLOCK_SIZE))
             \o EncodeFragments(tail), cut)

HeadFragments ==
    {h \in SeqsUpTo(Fragments, LOG_BLOCK_SIZE \div (LOG_HEADER_SIZE + 1)) :
        Len(EncodeFragments(h)) <= LOG_BLOCK_SIZE}

LogOff ==
    /\ logFile = <<>>
    /\ fpos = 0
    /\ chunk = <<>>
    /\ bpos = 0
    /\ in_record = FALSE
    /\ block = <<>>
    /\ batches = <<>>
    /\ frags = <<>>
    /\ logpc = "off"

LogInit ==
    /\ \E head \in HeadFragments, tail \in SeqsUpTo(Fragments, MaxTailFrags),
          cut \in 0..MaxCut :
            logFile = LogFileBytes(head, tail, cut)
    /\ fpos = 0
    /\ chunk = <<>>
    /\ bpos = 0
    /\ in_record = FALSE
    /\ block = <<>>
    /\ batches = <<>>
    /\ frags = <<>>
    /\ logpc = "chunk"

\* while chunk := f.read(_LOG_BLOCK_SIZE)
ReadChunk ==
    /\ logpc = "chunk"
    /\ LET c == Read(logFile, fpos, LOG_BLOCK_SIZE) IN
        /\ chunk' = c
        /\ fpos' = fpos + Len(c)
        /\ bpos' = 0
        /\ logpc' = IF c = <<>> THEN "done" ELSE "frag"
    /\ UNCHANGED <<logFile, in_record, block, batches, frags>>
    /\ UNCHANGED <<recVars, snapVars, synVars, scanVars, varintVars>>

\* the header of the fragment at buf.tell(), when the inner loop reads one
HasFragment ==
    /\ logpc = "frag"
    /\ bpos < LOG_BLOCK_SIZE - 6
    /\ Len(Read(chunk, bpos, LOG_HEADER_SIZE)) = LOG_HEADER_SIZE
FragHeader == Read(chunk, bpos, LOG_HEADER_SIZE)
FragLength == UnpackLE(SubSeq(FragHeader, 5, 6))
FragType == FragHeader[7]
\* buf.read(length) after the header
FragPayload == Read(chunk, bpos + LOG_HEADER_SIZE, FragLength)

\* the inner while ends: the position is in the trailer, or the header is short
EndOfChunk ==
    /\ logpc = "frag"
    /\ ~HasFragment
    /\ logpc' = "chunk"
    /\ UNCHANGED <<logFile, fpos, chunk, bpos, in_record, block, batches, frags>>
    /\ UNCHANGED <<recVars, snapVars, synVars, scanVars, varintVars>>

\* LogTransition with the LAST branch yielding only the last payload
LogTransitionLastOnly(type, inrec, buffer, payload) ==
    IF type = LOG_FULL
    THEN [in_record |-> FALSE, block |-> buffer, yield |-> <<payload>>]
    ELSE IF type = LOG_FIRST
    THEN [in_record |-> TRUE, block |-> payload, yield |-> <<>>]
    ELSE IF type = LOG_MIDDLE
    THEN IF inrec
         THEN [in_record |-> TRUE, block |-> buffer \o payload, yield |-> <<>>]
         ELSE [in_record |-> FALSE, block |-> buffer, yield |-> <<>>]
    ELSE IF type = LOG_LAST
    THEN IF inrec
         THEN [in_record |-> FALSE, block |-> payload, yield |-> <<payload>>]
         ELSE [in_record |-> FALSE, block |-> buffer, yield |-> <<>>]
    ELSE [in_record |-> inrec, block |-> buffer, yield |-> <<>>]

\* LogTransition with a FIRST that extends the buffer of a record in progress
LogTransitionFirstAppends(type, inrec, buffer, payload) ==
    IF type = LOG_FULL
    THEN [in_record |-> FALSE, block |-> buffer, yield |-> <<payload>>]
    ELSE IF type = LOG_FIRST
    THEN [in_record |-> TRUE, block |-> IF inrec THEN buffer \o payload ELSE payload,
          yield |-> <<>>]
    ELSE IF type = LOG_MIDDLE
    THEN IF inrec
         THEN [in_record |-> TRUE, block |-> buffer \o payload, yield |-> <<>>]
         ELSE [in_record |-> FALSE, block |-> buffer, yield |-> <<>>]
    ELSE IF type = LOG_LAST
    THEN IF inrec
         THEN [in_record |-> FALSE, block |-> buffer \o payload,
               yield |-> <<buffer \o payload>>]
         ELSE [in_record |-> FALSE, block |-> buffer, yield |-> <<>>]
    ELSE [in_record |-> inrec, block |-> buffer, yield |-> <<>>]

\* the branches of the inner loop on block_type: the state they leave and what
\* they yield (at most one payload)
LogTransition(type, inrec, buffer, payload) ==
    IF type = LOG_FULL
    THEN [in_record |-> FALSE, block |-> buffer, yield |-> <<payload>>]
    ELSE IF type = LOG_FIRST
    THEN [in_record |-> TRUE, block |-> payload, yield |-> <<>>]
    ELSE IF type = LOG_MIDDLE
    THEN IF inrec
         THEN [in_record |-> TRUE, block |-> buffer \o payload, yield |-> <<>>]
         ELSE [in_record |-> FALSE, block |-> buffer, yield |-> <<>>]
    ELSE IF type = LOG_LAST
    THEN IF inrec
         THEN [in_record |-> FALSE, block |-> buffer \o payload,
               yield |-> <<buffer \o payload>>]
         ELSE [in_record |-> FALSE, block |-> buffer, yield |-> <<>>]
    ELSE [in_record |-> inrec, block |-> buffer, yield |-> <<>>]

\* one iteration of the inner while: a header, its payload and the branch taken
ParseFragment ==
    /\ HasFragment
    /\ LET t == LogTransition(FragType, in_record, block, FragPayload) IN
        /\ in_record' = t.in_record
        /\ block' = t.block
        /\ batches' = batches \o
              [k \in 1..Len(t.yield) |-> [payload |-> t.yield[k], at |-> Len(frags) + 1]]
        /\ frags' = Append(frags, [type |-> FragType, payload |-> FragPayload,
                                   chunk |-> fpos, after |-> t.in_record])
    /\ bpos' = bpos + LOG_HEADER_SIZE + Len(FragPayload)
    /\ UNCHANGED <<logFile, fpos, chunk, logpc>>
    /\ UNCHANGED <<recVars, snapVars, synVars, scanVars, varintVars>>

LogNext == ReadChunk \/ EndOfChunk \/ ParseFragment

\* ========================================================================
\* Varints (_read_le_varint)
\* ========================================================================

\* x << n
Shl(x, n) == IF x = 0 THEN 0 ELSE x * (2 ^ n)

\* what _read_le_varint returns when the read of iteration i finds no byte: None,
\* whatever was accumulated
VarintEofPartial(i, result, pos) ==
    IF i = 0 THEN [none |-> TRUE, value |-> 0, pos |-> pos]
    ELSE [none |-> FALSE, value |-> result, pos |-> pos]

VarintEof(i, result, pos) == [none |-> TRUE, value |-> 0, pos |-> pos]

\* the loop of _read_le_varint from iteration i on: none is the None returned when
\* a read finds no byte; pos is the position the stream is left at
RECURSIVE VarintLoop(_, _, _, _, _)
VarintLoop(buf, pos, i, limit, result) ==
    IF i = limit THEN [none |-> FALSE, value |-> result, pos |-> pos]
    ELSE IF Len(Read(buf, pos, 1)) < 1 THEN VarintEof(i, result, pos)
    ELSE LET byte == buf[pos + 1]
             r == result + Shl(byte % 128, i * 7)
         IN IF byte < 128 THEN [none |-> FALSE, value |-> r, pos |-> pos + 1]
            ELSE VarintLoop(buf, pos + 1, i + 1, limit, r)

read_le_varint(buf, pos, is_google_32bit) ==
    VarintLoop(buf, pos, 0, IF is_google_32bit THEN 5 ELSE 10, 0)

\* a varint as a writer emits it; padded adds a continuation byte and a zero
\* group, which decodes to the same value
EncodeVarint(v, padded) ==
    IF padded THEN <<128 + v, 0>> ELSE <<v>>

\* ========================================================================
\* .log files: batches into records (_iter_log_file)
\* ========================================================================

\* KeyState(raw_state[0]) if raw_state[0] <= 1 else KeyState.Unknown
KeyState(byte) ==
    IF byte = 0 THEN "Deleted" ELSE IF byte = 1 THEN "Live" ELSE "Unknown"

Record(key, value, sq, state, from_ldb) ==
    [key |-> key, value |-> value, seq |-> sq, state |-> state, from_ldb |-> from_ldb]

BATCH_HEADER_SIZE == 12

\* the records a writer may put in a batch: state byte, key, value, and whether
\* the key length is written as a padded varint
LogRecords ==
    {[state |-> 0, key |-> <<107>>, value |-> <<>>, padded |-> FALSE],
     [state |-> 0, key |-> <<107, 108>>, value |-> <<>>, padded |-> FALSE],
     [state |-> 1, key |-> <<107>>, value |-> <<>>, padded |-> FALSE],
     [state |-> 1, key |-> <<107>>, value |-> <<118, 119>>, padded |-> FALSE],
     [state |-> 1, key |-> <<109>>, value |-> <<118, 119>>, padded |-> TRUE],
     [state |-> 2, key |-> <<>>, value |-> <<118>>, padded |-> FALSE]}

EncodeRecord(r) ==
    <<r.state>> \o EncodeVarint(Len(r.key), r.padded) \o r.key
    \o (IF r.state = 0 THEN <<>> ELSE EncodeVarint(Len(r.value), FALSE) \o r.value)

RECURSIVE EncodeRecords(_)
EncodeRecords(rs) ==
    IF rs = <<>> THEN <<>> ELSE EncodeRecord(Head(rs)) \o EncodeRecords(Tail(rs))

\* a batch: 8-byte base sequence, 4-byte count, the records; tear bytes are lost
EncodeBatch(base, cnt, rs, tear) ==
    DropLast(PackLE(base, 8) \o PackLE(cnt, 4) \o EncodeRecords(rs), tear)

\* what may follow the first batch: nothing, a batch too short for a header, or
\* a whole batch of one live record
TailBatches ==
    {<<>>, <<<<1, 2, 3>>>>,
     <<EncodeBatch(50, 1, <<[state |-> 1, key |-> <<122>>, value |-> <<121>>,
                             padded |-> FALSE]>>, 0)>>}

RecOff ==
    /\ logBatches = <<>>
    /\ written = <<>>
    /\ bidx = 0
    /\ rpos = 0
    /\ seq = 0
    /\ count = 0
    /\ ridx = 0
    /\ records = <<>>
    /\ recpc = "off"

RecInit ==
    /\ \E base \in {7, 300}, rs \in SeqsUpTo(LogRecords, MaxRecs),
          cnt \in 0..(MaxRecs + 1), tear \in 0..MaxTear, tail \in TailBatches :
            /\ logBatches = <<EncodeBatch(base, cnt, rs, tear)>> \o tail
            /\ written = [recs |-> rs, tear |-> tear]
    /\ bidx = 1
    /\ rpos = 0
    /\ seq = 0
    /\ count = 0
    /\ ridx = 0
    /\ records = <<>>
    /\ recpc = "batch"

CurBatch == logBatches[bidx]

\* for batch in _iter_log_batches(path): exhausted
BatchesDone ==
    /\ recpc = "batch"
    /\ bidx > Len(logBatches)
    /\ recpc' = "done"
    /\ UNCHANGED <<logBatches, written, bidx, rpos, seq, count, ridx, records>>
    /\ UNCHANGED <<logVars, snapVars, synVars, scanVars, varintVars>>

\* header = buf.read(12); if len(header) < 12: continue
BatchHeaderShort ==
    /\ recpc = "batch"
    /\ bidx <= Len(logBatches)
    /\ Len(Read(CurBatch, 0, BATCH_HEADER_SIZE)) < BATCH_HEADER_SIZE
    /\ bidx' = bidx + 1
    /\ UNCHANGED <<logBatches, written, rpos, seq, count, ridx, records, recpc>>
    /\ UNCHANGED <<logVars, snapVars, synVars, scanVars, varintVars>>

\* seq, count = struct.unpack("<QI", header)
BatchHeader ==
    /\ recpc = "batch"
    /\ bidx <= Len(logBatches)
    /\ Len(Read(CurBatch, 0, BATCH_HEADER_SIZE)) = BATCH_HEADER_SIZE
    /\ seq' = UnpackLE(SubSeq(CurBatch, 1, 8))
    /\ count' = UnpackLE(SubSeq(CurBatch, 9, 12))
    /\ rpos' = BATCH_HEADER_SIZE
    /\ ridx' = 0
    /\ recpc' = "record"
    /\ UNCHANGED <<logBatches, written, bidx, records>>
    /\ UNCHANGED <<logVars, snapVars, synVars, scanVars, varintVars>>

\* the body of the for loop up to the yield: break, or the fields of the record
\* with the declared lengths and the position after it
DecodeRecord(buf, pos) ==
    LET raw_state == Read(buf, pos, 1)
        state == KeyState(raw_state[1])
        kl == read_le_varint(buf, pos + 1, TRUE)
        key == Read(buf, kl.pos, kl.value)
        vl == read_le_varint(buf, kl.pos + Len(key), TRUE)
        value == Read(buf, vl.pos, vl.value)
    IN  IF Len(raw_state) < 1 THEN [break |-> TRUE]
        ELSE IF kl.none THEN [break |-> TRUE]
        ELSE IF state # "Deleted"
        THEN IF vl.none THEN [break |-> TRUE]
             ELSE [break |-> FALSE, state |-> state, key |-> key, value |-> value,
                   key_len |-> kl.value, val_len |-> vl.value,
                   pos |-> vl.pos + Len(value)]
        ELSE [break |-> FALSE, state |-> state, key |-> key, value |-> <<>>,
              key_len |-> kl.value, val_len |-> 0, pos |-> kl.pos + Len(key)]

\* seq + i + 1 in place of seq + i
RecordSeqOffByOne(base, i) == base + i + 1

\* the sequence number given to record i of a batch: seq + i
RecordSeq(base, i) == base + i

\* for i in range(count): exhausted
BatchEnd ==
    /\ recpc = "record"
    /\ ridx >= count
    /\ bidx' = bidx + 1
    /\ recpc' = "batch"
    /\ UNCHANGED <<logBatches, written, rpos, seq, count, ridx, records>>
    /\ UNCHANGED <<logVars, snapVars, synVars, scanVars, varintVars>>

\* a short read of the state byte or of a varint: break
RecordBreak ==
    /\ recpc = "record"
    /\ ridx < count
    /\ DecodeRecord(CurBatch, rpos).break
    /\ bidx' = bidx + 1
    /\ recpc' = "batch"
    /\ UNCHANGED <<logBatches, written, rpos, seq, count, ridx, records>>
    /\ UNCHANGED <<logVars, snapVars, synVars, scanVars, varintVars>>

\* yield Record(key, value, seq + i, state, from_ldb=False)
RecordYield ==
    /\ recpc = "record"
    /\ ridx < count
    /\ LET d == DecodeRecord(CurBatch, rpos) IN
        /\ ~d.break
        /\ records' = Append(records,
              [rec |-> Record(d.key, d.value, RecordSeq(seq, ridx), d.state, FALSE),
               batch |-> bidx, index |-> ridx,
               key_len |-> d.key_len, val_len |-> d.val_len])
        /\ rpos' = d.pos
    /\ ridx' = ridx + 1
    /\ UNCHANGED <<logBatches, written, bidx, seq, count, recpc>>
    /\ UNCHANGED <<logVars, snapVars, synVars, scanVars, varintVars>>

RecNext == BatchesDone \/ BatchHeaderShort \/ BatchHeader \/ BatchEnd
           \/ RecordBreak \/ RecordYield

\* ========================================================================
\* Snappy (_snappy_decompress)
\* ========================================================================

SNAPPY_LITERAL == 0
SNAPPY_COPY_1BYTE == 1
SNAPPY_COPY_2BYTE == 2
SNAPPY_COPY_4BYTE == 3

\* s[a:b] of Python, for any integers a and b (negative ones count from the end)
PySlice(s, a, b) ==
    LET n == Len(s)
        norm(x) == IF x < 0 THEN Max(x + n, 0) ELSE Min(x, n)
    IN SubSeq(s, norm(a) + 1, norm(b))

\* (s * k): s repeated k times
RECURSIVE Repeat(_, _)
Repeat(s, k) == IF k <= 0 THEN <<>> ELSE s \o Repeat(s, k - 1)

\* the elements a stream may hold, as bytes
SnappyElements ==
    {<<0, 97>>,                \* literal "a"
     <<4, 97, 98>>,            \* literal "ab"
     <<8, 97, 98, 99>>,        \* literal "abc"
     <<240, 0, 98>>,           \* literal, marker 60, "b"
     <<248, 0, 0, 0, 99>>,     \* literal, marker 62, "c"
     <<1, 0>>,                 \* copy1 L=4 O=0
     <<1, 1>>,                 \* copy1 L=4 O=1
     <<1, 2>>,                 \* copy1 L=4 O=2
     <<1, 5>>,                 \* copy1 L=4 O=5
     <<5, 3>>,                 \* copy1 L=5 O=3
     <<2, 1, 0>>,              \* copy2 L=1 O=1
     <<6, 3, 0>>,              \* copy2 L=2 O=3
     <<10, 2, 0>>,             \* copy2 L=3 O=2
     <<7, 1, 0, 0, 0>>}        \* copy4 L=2 O=1

\* the length prefixes: none, a whole varint (plain or padded), or a continuation
\* byte with nothing after it
SnappyPrefixes ==
    {[bytes |-> <<>>, declared |-> -1], [bytes |-> <<128>>, declared |-> -1],
     [bytes |-> EncodeVarint(5, TRUE), declared |-> 5]}
    \cup {[bytes |-> EncodeVarint(v, FALSE), declared |-> v] : v \in 0..MaxDeclared}

SnapOff ==
    /\ data = <<>>
    /\ declared = -1
    /\ dpos = 0
    /\ uncompressed_length = [none |-> TRUE, value |-> 0]
    /\ out = <<>>
    /\ copies = <<>>
    /\ outcome = ""
    /\ snappc = "off"

SnapInit ==
    /\ \E pre \in SnappyPrefixes, els \in SeqsUpTo(SnappyElements, MaxElems),
          cut \in 0..MaxCut :
            /\ (pre.declared = -1) => (els = <<>> /\ cut = 0)
            /\ data = DropLast(pre.bytes \o Concat(els), cut)
            /\ declared = IF cut > Len(Concat(els)) THEN -1 ELSE pre.declared
    /\ dpos = 0
    /\ uncompressed_length = [none |-> TRUE, value |-> 0]
    /\ out = <<>>
    /\ copies = <<>>
    /\ outcome = ""
    /\ snappc = "start"

\* uncompressed_length = _read_le_varint(data); out = io.BytesIO()
SnapStart ==
    /\ snappc = "start"
    /\ LET v == read_le_varint(data, 0, FALSE) IN
        /\ uncompressed_length' = [none |-> v.none, value |-> v.value]
        /\ dpos' = v.pos
    /\ snappc' = "loop"
    /\ UNCHANGED <<data, declared, out, copies, outcome>>
    /\ UNCHANGED <<logVars, recVars, synVars, scanVars, varintVars>>

HasTag == snappc = "loop" /\ Len(Read(data, dpos, 1)) = 1
TagByte == data[dpos + 1]
\* tag_byte & 0x03
Tag == TagByte % 4

\* uncompressed_length > len(result) in place of !=
LengthMismatchOnlyShort(ulen, res) == ulen.none \/ ulen.value > Len(res)

\* uncompressed_length != len(result)
LengthMismatch(ulen, res) == ulen.none \/ ulen.value # Len(res)

\* the loop breaks at the end of the input; the length is checked
SnapEnd ==
    /\ snappc = "loop"
    /\ ~HasTag
    /\ outcome' = IF LengthMismatch(uncompressed_length, out)
                 THEN "LengthMismatch" ELSE "ok"
    /\ snappc' = "done"
    /\ UNCHANGED <<data, declared, dpos, uncompressed_length, out, copies>>
    /\ UNCHANGED <<logVars, recVars, synVars, scanVars, varintVars>>

\* the length of a literal from its tag byte and the bytes after it: the error
\* raised when they are missing, else the length and the position after them
LiteralLength(buf, pos, tag_byte) ==
    LET size_marker == (tag_byte \div 4) % 64
        extra == IF size_marker < 60 THEN 0 ELSE size_marker - 59
        raw == Read(buf, pos, extra)
    IN  IF size_marker < 60
        THEN [err |-> "", length |-> 1 + size_marker, pos |-> pos]
        ELSE IF Len(raw) < extra
        THEN [err |-> IF size_marker = 60 THEN "IndexError" ELSE "StructError",
              length |-> 0, pos |-> pos + Len(raw)]
        ELSE [err |-> "", length |-> 1 + UnpackLE(raw), pos |-> pos + extra]

\* tag == _SNAPPY_LITERAL
SnapLiteral ==
    /\ HasTag
    /\ Tag = SNAPPY_LITERAL
    /\ LET ll == LiteralLength(data, dpos + 1, TagByte)
           piece == Read(data, ll.pos, ll.length)
       IN  IF ll.err # ""
           THEN /\ outcome' = ll.err
                /\ snappc' = "done"
                /\ dpos' = ll.pos
                /\ out' = out
           ELSE IF Len(piece) < ll.length
           THEN /\ outcome' = "TruncatedLiteral"
                /\ snappc' = "done"
                /\ dpos' = ll.pos + Len(piece)
                /\ out' = out
           ELSE /\ outcome' = outcome
                /\ snappc' = snappc
                /\ dpos' = ll.pos + ll.length
                /\ out' = out \o piece
    /\ UNCHANGED <<data, declared, uncompressed_length, copies>>
    /\ UNCHANGED <<logVars, recVars, synVars, scanVars, varintVars>>

\* the length and offset of a copy from its tag byte and the bytes after it
CopyHeader(buf, pos, tag_byte) ==
    LET tag == tag_byte % 4
        width == IF tag = SNAPPY_COPY_1BYTE THEN 1
                 ELSE IF tag = SNAPPY_COPY_2BYTE THEN 2 ELSE 4
        raw == Read(buf, pos, width)
    IN  IF Len(raw) < width
        THEN [err |-> IF tag = SNAPPY_COPY_1BYTE THEN "IndexError" ELSE "StructError",
              length |-> 0, offset |-> 0, pos |-> pos + Len(raw)]
        ELSE IF tag = SNAPPY_COPY_1BYTE
        THEN [err |-> "", length |-> ((tag_byte \div 4) % 8) + 4,
              offset |-> (tag_byte \div 32) * 256 + raw[1], pos |-> pos + 1]
        ELSE [err |-> "", length |-> 1 + ((tag_byte \div 4) % 64),
              offset |-> UnpackLE(raw), pos |-> pos + width]

\* the bytes a copy appends: the slice at src_pos, repeated when offset <= length
CopyBytes(buffer, length, offset) ==
    LET src_pos == Len(buffer) - offset
        buf == PySlice(buffer, src_pos, src_pos + length)
    IN  IF offset <= length THEN SubSeq(Repeat(buf, length), 1, Min(length, Len(buf) * length))
        ELSE buf

\* a copy element
SnapCopy ==
    /\ HasTag
    /\ Tag # SNAPPY_LITERAL
    /\ LET ch == CopyHeader(data, dpos + 1, TagByte) IN
        /\ dpos' = ch.pos
        /\ IF ch.err # ""
           THEN /\ outcome' = ch.err
                /\ snappc' = "done"
                /\ UNCHANGED <<out, copies>>
           ELSE IF ch.offset = 0
           THEN /\ outcome' = "ZeroOffset"
                /\ snappc' = "done"
                /\ UNCHANGED <<out, copies>>
           ELSE /\ out' = out \o CopyBytes(out, ch.length, ch.offset)
                /\ copies' = Append(copies, [length |-> ch.length, offset |-> ch.offset,
                                             before |-> out, after |-> out'])
                /\ UNCHANGED <<outcome, snappc>>
    /\ UNCHANGED <<data, declared, uncompressed_length>>
    /\ UNCHANGED <<logVars, recVars, synVars, scanVars, varintVars>>

SnapNext == SnapStart \/ SnapEnd \/ SnapLiteral \/ SnapCopy

\* ========================================================================
\* Records (Record, and lines 204-209 of _iter_table_file)
\* ========================================================================

\* key[-8:]
Last8(key) == PySlice(key, Len(key) - 8, Len(key))

\* TableRecord with the state decided for keys of 8 bytes as for longer ones
TableRecordFrom8(key, value) ==
    IF Len(Last8(key)) # 8 THEN [err |-> "StructError"]
    ELSE [err |-> "",
          rec |-> Record(key, value, UnpackLE(Last8(key)) \div 256,
                         IF key[Len(key) - 7] = 0 THEN "Deleted" ELSE "Live", TRUE)]

\* the Record that _iter_table_file makes of a block entry; struct.unpack("<Q")
\* raises when key[-8:] is not 8 bytes
TableRecord(key, value) ==
    IF Len(Last8(key)) # 8 THEN [err |-> "StructError"]
    ELSE LET sq == UnpackLE(Last8(key)) \div 256
             state == IF Len(key) > 8 /\ key[Len(key) - 7] = 0
                      THEN "Deleted" ELSE "Live"
         IN [err |-> "",
             rec |-> Record(key, value, sq,
                            IF Len(key) <= 8 THEN "Unknown" ELSE state, TRUE)]

\* UserKey stripping only keys longer than 8 bytes
UserKeyOver8(r) ==
    IF r.from_ldb /\ Len(r.key) > 8 THEN SubSeq(r.key, 1, Len(r.key) - 8) ELSE r.key

\* Record.user_key
UserKey(r) ==
    IF r.from_ldb /\ Len(r.key) >= 8 THEN SubSeq(r.key, 1, Len(r.key) - 8) ELSE r.key

\* the 8-byte trailers: a tag byte and a sequence number that fits the 31 bits of
\* the checker's integers (the upper four bytes are zero)
Trailers ==
    {<<tag, a, b, c, 0, 0, 0, 0>> : tag \in {0, 1, 2}, a \in {0, 5, 255},
                                    b \in {0, 255}, c \in {0, 127}}

\* the keys of entries: shorter than a trailer, or some user bytes and a trailer
EntryKeys ==
    SeqsUpTo({0, 1}, 7)
    \cup {u \o t : u \in SeqsUpTo({0, 1}, MaxUserKey), t \in Trailers}

SynOff ==
    /\ entry = <<>>
    /\ origin = ""
    /\ rec = <<>>
    /\ recErr = ""
    /\ user_key = <<>>
    /\ synpc = "off"

SynInit ==
    /\ \E k \in EntryKeys, v \in {<<>>, <<118>>} : entry = <<k, v>>
    /\ origin = ""
    /\ rec = <<>>
    /\ recErr = ""
    /\ user_key = <<>>
    /\ synpc = "entry"

\* for key, value in _iter_block_entries(block_data): ... yield Record(...)
TableEntry ==
    /\ synpc = "entry"
    /\ LET t == TableRecord(entry[1], entry[2]) IN
        IF t.err # ""
        THEN /\ recErr' = t.err
             /\ rec' = rec
             /\ synpc' = "done"
        ELSE /\ rec' = <<t.rec>>
             /\ recErr' = recErr
             /\ synpc' = "record"
    /\ origin' = "table"
    /\ UNCHANGED <<entry, user_key>>
    /\ UNCHANGED <<logVars, recVars, snapVars, scanVars, varintVars>>

\* yield Record(key, value, seq + i, state, from_ldb=False)
LogEntry ==
    /\ synpc = "entry"
    /\ \E st \in {0, 1, 2}, sq \in {7, 8} :
          rec' = <<Record(entry[1], IF st = 0 THEN <<>> ELSE entry[2], sq,
                          KeyState(st), FALSE)>>
    /\ origin' = "log"
    /\ synpc' = "record"
    /\ UNCHANGED <<entry, recErr, user_key>>
    /\ UNCHANGED <<logVars, recVars, snapVars, scanVars, varintVars>>

\* Record(key, value, seq, state, from_ldb) made by a caller
NewRecord ==
    /\ synpc = "entry"
    /\ \E st \in {"Deleted", "Live", "Unknown"}, ldb \in BOOLEAN :
          rec' = <<Record(entry[1], entry[2], 7, st, ldb)>>
    /\ origin' = "new"
    /\ synpc' = "record"
    /\ UNCHANGED <<entry, recErr, user_key>>
    /\ UNCHANGED <<logVars, recVars, snapVars, scanVars, varintVars>>

\* record.user_key
ReadUserKey ==
    /\ synpc = "record"
    /\ user_key' = <<UserKey(rec[1])>>
    /\ synpc' = "done"
    /\ UNCHANGED <<entry, origin, rec, recErr>>
    /\ UNCHANGED <<logVars, recVars, snapVars, scanVars, varintVars>>

SynNext == TableEntry \/ LogEntry \/ NewRecord \/ ReadUserKey

\* ========================================================================
\* The directory scanner (iter_leveldb_records)
\* ========================================================================

\* File names are sequences of one-character strings.
Digits == {"0", "1", "2", "3", "4", "5", "6", "7", "8", "9"}
HexChars == <<"0", "1", "2", "3", "4", "5", "6", "7", "8", "9",
              "a", "b", "c", "d", "e", "f">>
UpperHex == <<"A", "B", "C", "D", "E", "F">>

\* the value of a hexadecimal digit, -1 for any other character
HexDigit(c) ==
    IF \E i \in 1..Len(HexChars) : HexChars[i] = c
    THEN (CHOOSE i \in 1..Len(HexChars) : HexChars[i] = c) - 1
    ELSE IF \E i \in 1..Len(UpperHex) : UpperHex[i] = c
    THEN (CHOOSE i \in 1..Len(UpperHex) : UpperHex[i] = c) + 9
    ELSE -1

\* int(text, 16): ValueError unless every character is a hexadecimal digit
RECURSIVE HexValue(_, _)
HexValue(text, acc) ==
    IF text = <<>> THEN acc
    ELSE HexValue(Tail(text), acc * 16 + HexDigit(Head(text)))
ParseHex(text) ==
    IF text = <<>> \/ \E i \in 1..Len(text) : HexDigit(text[i]) = -1
    THEN [err |-> "ValueError", value |-> 0]
    ELSE [err |-> "", value |-> HexValue(text, 0)]

DataExts == {<<"l", "d", "b">>, <<"l", "o", "g">>, <<"s", "s", "t">>}

\* _DATA_FILE_RE.match(name): the pattern matches a prefix of the name
DataFileReMatch(name) ==
    /\ Len(name) >= 10
    /\ \A i \in 1..6 : name[i] \in Digits
    /\ name[7] = "."
    /\ SubSeq(name, 8, 10) \in DataExts

\* name.rfind("."), 1-based, 0 when there is none
LastDot(name) ==
    IF \E i \in 1..Len(name) : name[i] = "."
    THEN CHOOSE i \in 1..Len(name) :
            name[i] = "." /\ \A j \in (i + 1)..Len(name) : name[j] # "."
    ELSE 0

\* pathlib: the suffix starts at the last dot, unless the dot is first or last
HasSuffix(name) == 1 < LastDot(name) /\ LastDot(name) < Len(name)
Suffix(name) == IF HasSuffix(name) THEN SubSeq(name, LastDot(name), Len(name)) ELSE <<>>
Stem(name) == IF HasSuffix(name) THEN SubSeq(name, 1, LastDot(name) - 1) ELSE name

\* str.lower() on the letters of file names
LowerChar(c) ==
    CASE c = "L" -> "l" [] c = "D" -> "d" [] c = "B" -> "b" [] c = "O" -> "o"
      [] c = "G" -> "g" [] c = "S" -> "s" [] c = "T" -> "t" [] OTHER -> c
Lower(text) == [i \in 1..Len(text) |-> LowerChar(text[i])]

\* the for loop over iterdir(): ValueError at the first selected entry whose stem
\* is not hexadecimal, else the (file_no, path, ext) of the selected entries
Selected(entries) == SelectSeq(entries, LAMBDA e : e.is_file /\ DataFileReMatch(e.name))
ListFiles(entries) ==
    LET sel == Selected(entries) IN
    IF \E i \in 1..Len(sel) : ParseHex(Stem(sel[i].name)).err # ""
    THEN [err |-> "ValueError", files |-> <<>>]
    ELSE [err |-> "",
          files |-> [i \in 1..Len(sel) |->
                        [file_no |-> ParseHex(Stem(sel[i].name)).value,
                         path |-> sel[i].name,
                         ext |-> Lower(Suffix(sel[i].name))]]]

\* x put after the elements of the sorted list that are not greater
RECURSIVE InsertFile(_, _)
InsertFile(x, sorted) ==
    IF sorted = <<>> THEN <<x>>
    ELSE IF Head(sorted).file_no <= x.file_no
    THEN <<Head(sorted)>> \o InsertFile(x, Tail(sorted))
    ELSE <<x>> \o sorted

RECURSIVE StableSort(_, _)
StableSort(list, sorted) ==
    IF list = <<>> THEN sorted
    ELSE StableSort(Tail(list), InsertFile(Head(list), sorted))

\* the list left as iterdir() gave it
SortFilesNot(list) == list

\* files.sort(key=lambda x: x[0])
SortFiles(list) == StableSort(list, <<>>)

\* ---- the directory entries and what the files hold --------------------

N_000002_ldb == <<"0", "0", "0", "0", "0", "2", ".", "l", "d", "b">>
N_000002_log == <<"0", "0", "0", "0", "0", "2", ".", "l", "o", "g">>
N_000010_log == <<"0", "0", "0", "0", "1", "0", ".", "l", "o", "g">>
N_000009_sst == <<"0", "0", "0", "0", "0", "9", ".", "s", "s", "t">>
N_000005_ldb == <<"0", "0", "0", "0", "0", "5", ".", "l", "d", "b">>
N_000007_sst == <<"0", "0", "0", "0", "0", "7", ".", "s", "s", "t">>
N_000003_ldbx == <<"0", "0", "0", "0", "0", "3", ".", "l", "d", "b", "x">>
N_000001_log_bak == <<"0", "0", "0", "0", "0", "1", ".", "l", "o", "g", ".", "b", "a", "k">>
N_000006_LOG == <<"0", "0", "0", "0", "0", "6", ".", "L", "O", "G">>
N_000004_log == <<"0", "0", "0", "0", "0", "4", ".", "l", "o", "g">>
N_CURRENT == <<"C", "U", "R", "R", "E", "N", "T">>

\* the entries a directory may hold; 000004.log is a subdirectory
DirNames ==
    {[name |-> n, is_file |-> TRUE] :
        n \in {N_000002_ldb, N_000002_log, N_000010_log, N_000009_sst, N_000005_ldb,
               N_000007_sst, N_000003_ldbx, N_000001_log_bak, N_000006_LOG, N_CURRENT}}
    \cup {[name |-> N_000004_log, is_file |-> FALSE]}

KeyLive == <<9, 1, 5, 0, 0, 0, 0, 0, 0>>
KeyDeleted == <<9, 0, 6, 0, 0, 0, 0, 0, 0>>
KeyOf8 == <<1, 7, 0, 0, 0, 0, 0, 0>>
KeyShort == <<1, 2, 3>>

\* a data block as read_block and _iter_block_entries give it: the error of the
\* decompression, or the entries
DataBlock(keys) == [err |-> "", entries |-> [i \in 1..Len(keys) |-> <<keys[i], <<118>>>>]]
BadBlock(e) == [err |-> e, entries |-> <<>>]

\* a table file: whether the footer holds the magic, and its data blocks in
\* index order
TableFile(name) ==
    IF name = N_000002_ldb
    THEN [magic_ok |-> TRUE,
          blocks |-> <<DataBlock(<<KeyLive, KeyDeleted>>), DataBlock(<<KeyOf8>>)>>]
    ELSE IF name = N_000009_sst
    THEN [magic_ok |-> TRUE,
          blocks |-> <<DataBlock(<<KeyLive>>), BadBlock("LengthMismatch"),
                       DataBlock(<<KeyDeleted>>)>>]
    ELSE IF name = N_000007_sst
    THEN [magic_ok |-> TRUE,
          blocks |-> <<DataBlock(<<KeyDeleted, KeyShort, KeyLive>>)>>]
    ELSE [magic_ok |-> FALSE, blocks |-> <<DataBlock(<<KeyLive>>)>>]

\* a log file: its batches, each the Records that _iter_log_file makes of it
LogFile(name) ==
    IF name = N_000002_log
    THEN << <<Record(<<107>>, <<118>>, 7, "Live", FALSE),
              Record(<<108>>, <<>>, 8, "Deleted", FALSE)>>,
            <<>>,
            <<Record(<<107>>, <<119>>, 20, "Unknown", FALSE)>> >>
    ELSE << <<Record(<<122>>, <<121>>, 50, "Live", FALSE)>> >>

ScanOff ==
    /\ is_dir = FALSE
    /\ dirEntries = <<>>
    /\ files = <<>>
    /\ fidx = 0
    /\ blk = 0
    /\ eidx = 0
    /\ scanOut = <<>>
    /\ scanErr = ""
    /\ scanpc = "off"

\* the sequences of distinct entries
Listings(n) ==
    {l \in SeqsUpTo(DirNames, n) : \A i, j \in 1..Len(l) : i # j => l[i] # l[j]}

ScanInit ==
    /\ is_dir \in BOOLEAN
    /\ dirEntries \in Listings(MaxEntries)
    /\ ~is_dir => dirEntries = <<>>
    /\ files = <<>>
    /\ fidx = 0
    /\ blk = 0
    /\ eidx = 0
    /\ scanOut = <<>>
    /\ scanErr = ""
    /\ scanpc = "start"

\* the first next(): the directory is checked, listed and sorted
ScanStart ==
    /\ scanpc = "start"
    /\ LET l == ListFiles(dirEntries) IN
        IF ~is_dir
        THEN /\ scanErr' = "NotADirectory"
             /\ scanpc' = "done"
             /\ UNCHANGED <<files, fidx>>
        ELSE IF l.err # ""
        THEN /\ scanErr' = l.err
             /\ scanpc' = "done"
             /\ UNCHANGED <<files, fidx>>
        ELSE /\ files' = SortFiles(l.files)
             /\ fidx' = 1
             /\ scanpc' = "files"
             /\ scanErr' = scanErr
    /\ UNCHANGED <<is_dir, dirEntries, blk, eidx, scanOut>>
    /\ UNCHANGED <<logVars, recVars, snapVars, synVars, varintVars>>

CurFile == files[fidx]
ExtLog == <<".", "l", "o", "g">>
ExtTable == {<<".", "l", "d", "b">>, <<".", "s", "s", "t">>}

\* the for loop over files is exhausted: the generator ends
ScanDone ==
    /\ scanpc = "files"
    /\ fidx > Len(files)
    /\ scanpc' = "done"
    /\ UNCHANGED <<is_dir, dirEntries, files, fidx, blk, eidx, scanOut, scanErr>>
    /\ UNCHANGED <<logVars, recVars, snapVars, synVars, varintVars>>

\* neither branch of the dispatch on ext
SkipFile ==
    /\ scanpc = "files"
    /\ fidx <= Len(files)
    /\ CurFile.ext # ExtLog
    /\ CurFile.ext \notin ExtTable
    /\ fidx' = fidx + 1
    /\ UNCHANGED <<is_dir, dirEntries, files, blk, eidx, scanOut, scanErr, scanpc>>
    /\ UNCHANGED <<logVars, recVars, snapVars, synVars, varintVars>>

\* if ext == ".log": yield from _iter_log_file(path)
OpenLog ==
    /\ scanpc = "files"
    /\ fidx <= Len(files)
    /\ CurFile.ext = ExtLog
    /\ blk' = 1
    /\ eidx' = 1
    /\ scanpc' = "log"
    /\ UNCHANGED <<is_dir, dirEntries, files, fidx, scanOut, scanErr>>
    /\ UNCHANGED <<logVars, recVars, snapVars, synVars, varintVars>>

\* an exception of a reader swallowed, the scan going on with the next file
TableErrorSkipsFile(i) == [scanpc |-> "files", fidx |-> i + 1]

\* an exception raised in _iter_table_file leaves iter_leveldb_records through
\* yield from: the generator is finished
TableError(i) == [scanpc |-> "done", fidx |-> i]

\* elif ext in (".ldb", ".sst"): yield from _iter_table_file(path); the footer
\* is read and the magic checked before anything is yielded
OpenTable ==
    /\ scanpc = "files"
    /\ fidx <= Len(files)
    /\ CurFile.ext \in ExtTable
    /\ IF TableFile(CurFile.path).magic_ok
       THEN /\ blk' = 1
            /\ eidx' = 1
            /\ scanpc' = "table"
            /\ UNCHANGED <<fidx, scanErr>>
       ELSE /\ scanErr' = "BadMagic"
            /\ scanpc' = TableError(fidx).scanpc
            /\ fidx' = TableError(fidx).fidx
            /\ UNCHANGED <<blk, eidx>>
    /\ UNCHANGED <<is_dir, dirEntries, files, scanOut>>
    /\ UNCHANGED <<logVars, recVars, snapVars, synVars, varintVars>>

CurBlocks == TableFile(CurFile.path).blocks

\* for _index_key, handle_bytes in index_entries: exhausted
TableEnd ==
    /\ scanpc = "table"
    /\ blk > Len(CurBlocks)
    /\ fidx' = fidx + 1
    /\ scanpc' = "files"
    /\ UNCHANGED <<is_dir, dirEntries, files, blk, eidx, scanOut, scanErr>>
    /\ UNCHANGED <<logVars, recVars, snapVars, synVars, varintVars>>

\* block_data, was_compressed = read_block(*block_handle)
ReadBlock ==
    /\ scanpc = "table"
    /\ blk <= Len(CurBlocks)
    /\ IF CurBlocks[blk].err = ""
       THEN /\ eidx' = 1
            /\ scanpc' = "entries"
            /\ UNCHANGED <<fidx, scanErr>>
       ELSE /\ scanErr' = CurBlocks[blk].err
            /\ scanpc' = TableError(fidx).scanpc
            /\ fidx' = TableError(fidx).fidx
            /\ eidx' = eidx
    /\ UNCHANGED <<is_dir, dirEntries, files, blk, scanOut>>
    /\ UNCHANGED <<logVars, recVars, snapVars, synVars, varintVars>>

\* for key, value in _iter_block_entries(block_data): exhausted
BlockEnd ==
    /\ scanpc = "entries"
    /\ eidx > Len(CurBlocks[blk].entries)
    /\ blk' = blk + 1
    /\ scanpc' = "table"
    /\ UNCHANGED <<is_dir, dirEntries, files, fidx, eidx, scanOut, scanErr>>
    /\ UNCHANGED <<logVars, recVars, snapVars, synVars, varintVars>>

Yielded(r) ==
    [rec |-> r, path |-> CurFile.path, blk |-> blk, idx |-> eidx,
     after_error |-> scanErr # ""]

\* the Record of the next entry is yielded, or struct.unpack raises
TableYield ==
    /\ scanpc = "entries"
    /\ eidx <= Len(CurBlocks[blk].entries)
    /\ LET e == CurBlocks[blk].entries[eidx]
           t == TableRecord(e[1], e[2])
       IN  IF t.err = ""
           THEN /\ scanOut' = Append(scanOut, Yielded(t.rec))
                /\ eidx' = eidx + 1
                /\ UNCHANGED <<fidx, scanErr, scanpc>>
           ELSE /\ scanErr' = t.err
                /\ scanpc' = TableError(fidx).scanpc
                /\ fidx' = TableError(fidx).fidx
                /\ UNCHANGED <<eidx, scanOut>>
    /\ UNCHANGED <<is_dir, dirEntries, files, blk>>
    /\ UNCHANGED <<logVars, recVars, snapVars, synVars, varintVars>>

CurBatches == LogFile(CurFile.path)

\* for batch in _iter_log_batches(path): exhausted
LogEnd ==
    /\ scanpc = "log"
    /\ blk > Len(CurBatches)
    /\ fidx' = fidx + 1
    /\ scanpc' = "files"
    /\ UNCHANGED <<is_dir, dirEntries, files, blk, eidx, scanOut, scanErr>>
    /\ UNCHANGED <<logVars, recVars, snapVars, synVars, varintVars>>

\* the records of the batch are exhausted: the next batch
LogBatchEnd ==
    /\ scanpc = "log"
    /\ blk <= Len(CurBatches)
    /\ eidx > Len(CurBatches[blk])
    /\ blk' = blk + 1
    /\ eidx' = 1
    /\ UNCHANGED <<is_dir, dirEntries, files, fidx, scanOut, scanErr, scanpc>>
    /\ UNCHANGED <<logVars, recVars, snapVars, synVars, varintVars>>

\* the next Record of the batch is yielded
LogYield ==
    /\ scanpc = "log"
    /\ blk <= Len(CurBatches)
    /\ eidx <= Len(CurBatches[blk])
    /\ scanOut' = Append(scanOut, Yielded(CurBatches[blk][eidx]))
    /\ eidx' = eidx + 1
    /\ UNCHANGED <<is_dir, dirEntries, files, fidx, blk, scanErr, scanpc>>
    /\ UNCHANGED <<logVars, recVars, snapVars, synVars, varintVars>>

ScanNext == ScanStart \/ ScanDone \/ SkipFile \/ OpenLog \/ OpenTable \/ TableEnd
            \/ ReadBlock \/ BlockEnd \/ TableYield \/ LogEnd \/ LogBatchEnd \/ LogYield

\* ========================================================================
\* _read_le_varint, one iteration at a time
\* ========================================================================

\* the bytes a stream may hold at offset j - 1: a terminator or a continuation
\* byte; from the sixth byte on the payload bits are zero, which keeps the
\* value below 2^31
StreamBytes(j) == IF j <= 5 THEN {1, 128, 129} ELSE {0, 128}

Streams ==
    UNION {{s \in [1..k -> {0, 1, 128, 129}] : \A j \in 1..k : s[j] \in StreamBytes(j)} :
           k \in 0..MaxStream}

VarintOff ==
    /\ stream = <<>> /\ google32 = FALSE /\ vpos = 0 /\ vi = 0 /\ vresult = 0
    /\ vret = <<>> /\ varpc = "off"

VarintInit ==
    /\ stream \in Streams
    /\ google32 \in BOOLEAN
    /\ vpos = 0
    /\ vi = 0
    /\ vresult = 0
    /\ vret = <<>>
    /\ varpc = "loop"

\* limit = 5 if is_google_32bit else 10
VarintLimit(is_google_32bit) == IF is_google_32bit THEN 5 ELSE 10

VarintReturn(r) ==
    /\ vret' = <<r>>
    /\ varpc' = "done"

\* one iteration of the for loop: read a byte, accumulate, return on a byte
\* whose high bit is clear
VarintByte ==
    /\ varpc = "loop"
    /\ vi < VarintLimit(google32)
    /\ LET raw == Read(stream, vpos, 1)
       IN  IF Len(raw) < 1
           THEN /\ VarintReturn(VarintEof(vi, vresult, vpos))
                /\ UNCHANGED <<vpos, vi, vresult>>
           ELSE LET byte == raw[1]
                    r == vresult + Shl(byte % 128, vi * 7)
                IN  /\ vpos' = vpos + 1
                    /\ vresult' = r
                    /\ IF byte < 128
                       THEN /\ VarintReturn([none |-> FALSE, value |-> r, pos |-> vpos + 1])
                            /\ UNCHANGED vi
                       ELSE /\ vi' = vi + 1
                            /\ UNCHANGED <<vret, varpc>>
    /\ UNCHANGED <<stream, google32>>
    /\ UNCHANGED <<logVars, recVars, snapVars, synVars, scanVars>>

\* the for loop ran limit times: return result
VarintExhausted ==
    /\ varpc = "loop"
    /\ vi = VarintLimit(google32)
    /\ VarintReturn([none |-> FALSE, value |-> vresult, pos |-> vpos])
    /\ UNCHANGED <<stream, google32, vpos, vi, vresult>>
    /\ UNCHANGED <<logVars, recVars, snapVars, synVars, scanVars>>

VarintNext == VarintByte \/ VarintExhausted

\* ========================================================================
\* Specifications
\* ========================================================================

InitLogFrag == LogInit /\ RecOff /\ SnapOff /\ SynOff /\ ScanOff /\ VarintOff
SpecLogFrag == InitLogFrag /\ [][LogNext]_vars

InitLogBatch == RecInit /\ LogOff /\ SnapOff /\ SynOff /\ ScanOff /\ VarintOff
SpecLogBatch == InitLogBatch /\ [][RecNext]_vars

InitSnappy == SnapInit /\ LogOff /\ RecOff /\ SynOff /\ ScanOff /\ VarintOff
SpecSnappy == InitSnappy /\ [][SnapNext]_vars

InitRecord == SynInit /\ LogOff /\ RecOff /\ SnapOff /\ ScanOff /\ VarintOff
SpecRecord == InitRecord /\ [][SynNext]_vars

InitScan == ScanInit /\ LogOff /\ RecOff /\ SnapOff /\ SynOff /\ VarintOff
SpecScan == InitScan /\ [][ScanNext]_vars

InitVarint == VarintInit /\ LogOff /\ RecOff /\ SnapOff /\ SynOff /\ ScanOff
SpecVarint == InitVarint /\ [][VarintNext]_vars

\* the match anchored at both ends: six digits, a dot, an extension, nothing more
DataFileReFullMatch(name) ==
    /\ Len(name) = 10
    /\ \A i \in 1..6 : name[i] \in Digits
    /\ name[7] = "."
    /\ SubSeq(name, 8, 10) \in DataExts

\* ---- C2 ----------------------------------------------------------------

IsPrefix(a, b) == Len(a) <= Len(b) /\ a = SubSeq(b, 1, Len(a))

\* the header fields of a batch, read from its bytes
HeaderBase(b) == UnpackLE(SubSeq(logBatches[b], 1, 8))
HeaderCount(b) == UnpackLE(SubSeq(logBatches[b], 9, 12))

\* the records yielded from batch b, in the order yielded
YieldedFrom(b) == SelectSeq(records, LAMBDA r : r.batch = b)

\* C2: the records yielded from a batch with base b and count c are records
\* 0, 1, 2, ... of the batch, none skipped, the i-th with seq = b + i, and there are
\* at most c of them, also when decoding stops early; the i-th yielded is the i-th
\* written (whole when nothing was torn off).
C2_BatchSequence ==
    /\ \A k \in 1..Len(records) : \A j \in 1..(k - 1) :
          records[j].batch <= records[k].batch
    /\ \A b \in 1..Len(logBatches) :
          LET ys == YieldedFrom(b) IN
            /\ ys # <<>> => Len(ys) <= HeaderCount(b)
            /\ \A n \in 1..Len(ys) :
                  /\ ys[n].index = n - 1
                  /\ ys[n].rec.seq = HeaderBase(b) + (n - 1)
                  /\ ~ys[n].rec.from_ldb
                  /\ b = 1 =>
                       /\ n <= Len(written.recs)
                       /\ ys[n].rec.state = KeyState(written.recs[n].state)
                       /\ IsPrefix(ys[n].rec.key, written.recs[n].key)
                       /\ IsPrefix(ys[n].rec.value, written.recs[n].value)
                       /\ written.tear = 0 =>
                            /\ ys[n].rec.key = written.recs[n].key
                            /\ ys[n].rec.value = written.recs[n].value

\* decoding of a torn batch of two written records, with a header count of
\* three, has stopped early after the second record was yielded with seq = b + 1
C2_Witness ==
    /\ recpc = "done"
    /\ written.tear > 0
    /\ Len(YieldedFrom(1)) = 2
    /\ HeaderCount(1) = 3
    /\ YieldedFrom(1)[2].rec.seq = HeaderBase(1) + 1
    /\ YieldedFrom(1)[2].rec.seq = 301

\* ---- C9 ----------------------------------------------------------------

\* C9: when a varint or a read of state, key or value bytes is short because the
\* batch ends, decoding of the batch stops and no record is yielded for that
\* index: no yielded record has a key or a value shorter than its declared
\* length; decoding goes on with the next batch.
C9_TornBatchYieldsNoShortRecord ==
    /\ \A k \in 1..Len(records) :
          /\ Len(records[k].rec.key) = records[k].key_len
          /\ Len(records[k].rec.value) = records[k].val_len
    /\ (recpc = "done" /\ Len(logBatches) = 2
          /\ Len(logBatches[2]) >= BATCH_HEADER_SIZE) => YieldedFrom(2) # <<>>

\* ---- C8 ----------------------------------------------------------------

\* C8: when _snappy_decompress returns a buffer, its length is the value of the
\* length prefix; when the elements decode to the end of the input and the bytes
\* they produced are not as many as declared (or there is no prefix), it raises
\* the length-mismatch error and returns nothing.
C8_DeclaredLength ==
    snappc = "done" =>
        /\ outcome = "ok" => (declared # -1 /\ Len(out) = declared)
        /\ (outcome \in {"ok", "LengthMismatch"}
              /\ (declared = -1 \/ Len(out) # declared)) => outcome = "LengthMismatch"
        /\ data = <<>> => outcome = "LengthMismatch"

\* a stream of a literal and a copy has been returned with the declared length
C8_Witness ==
    /\ snappc = "done"
    /\ outcome = "ok"
    /\ copies # <<>>
    /\ declared = 5
    /\ Len(out) = 5

\* ---- C10 ---------------------------------------------------------------

\* what C10 says of one copy c of length L and offset O on an output of n bytes
CopyLaw(c) ==
    LET n == Len(c.before)
        p == n - c.offset
    IN  /\ Len(c.after) = n + c.length
        /\ \A j \in 0..(c.length - 1) :
              /\ p + (j % c.offset) \in 0..(n - 1)
              /\ c.after[n + j + 1] = c.before[p + (j % c.offset) + 1]

\* C10: every copy with length L and offset O # 0, on an output of n bytes, makes
\* the output grow by exactly L bytes, the j-th being the byte at p + (j mod O) of
\* the output before the copy, p = n - O; for every O, also O > n.
C10_CopyAppendsPattern ==
    \A k \in 1..Len(copies) : CopyLaw(copies[k])

\* the same for the copies whose offset lies within the output (O <= n)
CopyWithinOutput ==
    \A k \in 1..Len(copies) :
        copies[k].offset <= Len(copies[k].before) => CopyLaw(copies[k])

\* ---- C3 ----------------------------------------------------------------

\* the record in hand came from a table file
FromTable == origin = "table" /\ rec # <<>>

\* the little-endian value of the last 8 key bytes, shifted right by 8: the value
\* of the last 7 bytes
TrailerSeq(key) == UnpackLE(SubSeq(key, Len(key) - 6, Len(key)))

StateFromTag(r) ==
    /\ r.state \in {"Deleted", "Live"}
    /\ r.state = "Deleted" <=> r.key[Len(r.key) - 7] = 0

\* C3 as stated: for every table record with a key of 8 bytes or more (exactly 8
\* included), seq is the trailer value shifted right by 8 and state is Deleted
\* or Live, Deleted exactly when key[-8] is 0.
C3_AsStated ==
    (FromTable /\ Len(rec[1].key) >= 8) =>
        /\ rec[1].seq = TrailerSeq(rec[1].key)
        /\ StateFromTag(rec[1])

\* C3 as amended: for every table record with a key of 8 bytes or more, seq is
\* the trailer value shifted right by 8; when the key is longer than 8 bytes
\* state is Deleted or Live, Deleted exactly when key[-8] is 0; a key of exactly
\* 8 bytes has state Unknown.
C3_TrailerOver8 ==
    (FromTable /\ Len(rec[1].key) >= 8) =>
        /\ rec[1].seq = TrailerSeq(rec[1].key)
        /\ Len(rec[1].key) > 8 => StateFromTag(rec[1])
        /\ Len(rec[1].key) = 8 => rec[1].state = "Unknown"

\* a table record with a key of 9 bytes, tag 0 and the sequence number 0x7FFF05
C3_Witness ==
    /\ FromTable
    /\ Len(rec[1].key) = 9
    /\ rec[1].state = "Deleted"
    /\ rec[1].seq = 8388357

\* ---- C4 ----------------------------------------------------------------

\* C4: for a record from a table file, user_key is key without its last 8 bytes
\* when len(key) >= 8 and key itself when len(key) < 8; for a record from a log
\* file, user_key is key whatever its length.
C4_UserKeyLaw ==
    user_key # <<>> =>
        LET r == rec[1]  k == user_key[1] IN
            /\ (r.from_ldb /\ Len(r.key) >= 8) =>
                  /\ Len(k) = Len(r.key) - 8
                  /\ k \o Last8(r.key) = r.key
            /\ (r.from_ldb /\ Len(r.key) < 8) => k = r.key
            /\ ~r.from_ldb => k = r.key
            /\ origin = "table" => r.from_ldb
            /\ origin = "log" => ~r.from_ldb

\* user_key was read on a table record with a key of exactly 8 bytes
C4_Witness ==
    /\ user_key = <<<<>>>>
    /\ origin = "table"
    /\ Len(rec[1].key) = 8

\* ---- C5 ----------------------------------------------------------------

\* the file number of a data file: its six digits read as hexadecimal
DigitValue(c) == CHOOSE v \in 0..9 : SubSeq(HexChars, 1, 10)[v + 1] = c
NameNumber(name) ==
    DigitValue(name[1]) * 1048576 + DigitValue(name[2]) * 65536
    + DigitValue(name[3]) * 4096 + DigitValue(name[4]) * 256
    + DigitValue(name[5]) * 16 + DigitValue(name[6])

IsLogName(name) == SubSeq(name, 8, 10) = <<"l", "o", "g">>

RECURSIVE SumLen(_)
SumLen(ss) == IF ss = <<>> THEN 0 ELSE Len(Head(ss)) + SumLen(Tail(ss))

\* the records a data file holds
TotalRecords(name) ==
    IF ~DataFileReFullMatch(name) THEN 0
    ELSE IF IsLogName(name) THEN SumLen(LogFile(name))
    ELSE SumLen([b \in 1..Len(TableFile(name).blocks) |->
                    TableFile(name).blocks[b].entries])

YieldedOf(name) == Len(SelectSeq(scanOut, LAMBDA y : y.path = name))

\* the record at a place of a data file
RecordAt(name, b, i) ==
    IF IsLogName(name) THEN LogFile(name)[b][i]
    ELSE TableRecord(TableFile(name).blocks[b].entries[i][1],
                     TableFile(name).blocks[b].entries[i][2]).rec

\* C5: the file numbers of the records yielded never decrease, the records of
\* one file are contiguous and keep the file's order (block or batch, then
\* entry or record), each being the record at its place in the file; a scan that
\* ends without an error has yielded every record of every data file.
C5_DirectoryOrder ==
    /\ \A j \in 1..Len(scanOut) :
          /\ scanOut[j].rec = RecordAt(scanOut[j].path, scanOut[j].blk, scanOut[j].idx)
          /\ \A i \in 1..(j - 1) :
                /\ NameNumber(scanOut[i].path) <= NameNumber(scanOut[j].path)
                /\ scanOut[i].path = scanOut[j].path =>
                      /\ \/ scanOut[i].blk < scanOut[j].blk
                         \/ /\ scanOut[i].blk = scanOut[j].blk
                            /\ scanOut[i].idx < scanOut[j].idx
                      /\ \A m \in i..j : scanOut[m].path = scanOut[i].path
    /\ (scanpc = "done" /\ scanErr = "") =>
          \A e \in 1..Len(dirEntries) :
              dirEntries[e].is_file =>
                  YieldedOf(dirEntries[e].name) = TotalRecords(dirEntries[e].name)

\* a directory listed as 000010.log, 000002.log, 000002.ldb has been scanned to
\* the end: seven records, those of the two files numbered 2 first
C5_Witness ==
    /\ scanpc = "done"
    /\ scanErr = ""
    /\ Len(dirEntries) = 3
    /\ dirEntries[1].name = N_000010_log
    /\ dirEntries[2].name = N_000002_log
    /\ Len(scanOut) = 7
    /\ scanOut[7].path = N_000010_log

\* ---- C6 ----------------------------------------------------------------

\* C6: an entry is read only if it is a regular file named exactly six digits, a
\* dot and ldb, log or sst; every other entry is ignored: no record comes from
\* it and it causes no error (the only error an entry's name can cause is the
\* ValueError of int(stem, 16)).
C6_OnlyDataFilesRead ==
    /\ \A j \in 1..Len(scanOut) :
          /\ DataFileReFullMatch(scanOut[j].path)
          /\ [name |-> scanOut[j].path, is_file |-> TRUE] \in DirNames
    /\ scanErr # "ValueError"

\* ---- C7 ----------------------------------------------------------------

TableErrors == {"BadMagic", "LengthMismatch", "StructError"}

\* C7: when reading a table file fails, the error reaches the consumer and the
\* scan is over: no record is yielded after it, from the failing file or a later
\* one; every record of the files before the failing one was yielded before;
\* a table with a bad magic contributes no record.
C7_ErrorPropagation ==
    /\ \A j \in 1..Len(scanOut) : ~scanOut[j].after_error
    /\ scanErr \in TableErrors =>
          /\ scanpc = "done"
          /\ \A f \in 1..Len(files) :
                /\ f < fidx => YieldedOf(files[f].path) = TotalRecords(files[f].path)
                /\ f > fidx => YieldedOf(files[f].path) = 0
          /\ scanErr = "BadMagic" => YieldedOf(files[fidx].path) = 0

\* the second of three files, a table, failed in its second block after the three
\* records of the first file and one of its own were yielded
C7_Witness ==
    /\ scanErr = "LengthMismatch"
    /\ Len(files) = 3
    /\ fidx = 2
    /\ files[1].path = N_000002_ldb
    /\ files[3].path = N_000010_log
    /\ Len(scanOut) = 4

\* ---- C1 ----------------------------------------------------------------

\* the fragments j before k that are a FIRST still open at k: no FULL, FIRST or
\* LAST was parsed between j and k
OpenFirst(k) ==
    {j \in 1..(k - 1) :
        /\ frags[j].type = LOG_FIRST
        /\ \A m \in (j + 1)..(k - 1) :
              frags[m].type \notin {LOG_FULL, LOG_FIRST, LOG_LAST}}

\* the payloads of FIRST j, the MIDDLE fragments after it and LAST k, in file order
RECURSIVE JoinPayloads(_, _)
JoinPayloads(j, k) ==
    IF j > k THEN <<>>
    ELSE (IF frags[j].type \in {LOG_FIRST, LOG_MIDDLE, LOG_LAST}
          THEN frags[j].payload ELSE <<>>) \o JoinPayloads(j + 1, k)

EmittedAt(k) == {e \in 1..Len(batches) : batches[e].at = k}

\* C1: every batch yielded is the payload of one FULL fragment, or the payloads of
\* one FIRST, the MIDDLE fragments that follow it and the LAST that closes it, in
\* file order; every FULL and every closing LAST yields exactly one batch; a
\* MIDDLE or LAST parsed while no record is in progress yields nothing and
\* leaves the reader idle.
C1_Reassembly ==
    /\ \A e \in 1..Len(batches) :
          LET k == batches[e].at IN
            /\ k \in 1..Len(frags)
            /\ \A d \in 1..(e - 1) : batches[d].at < k
            /\ \/ /\ frags[k].type = LOG_FULL
                  /\ batches[e].payload = frags[k].payload
               \/ /\ frags[k].type = LOG_LAST
                  /\ \E j \in OpenFirst(k) : batches[e].payload = JoinPayloads(j, k)
    /\ \A k \in 1..Len(frags) :
          /\ frags[k].type = LOG_FULL => EmittedAt(k) # {}
          /\ (frags[k].type = LOG_LAST /\ OpenFirst(k) # {}) => EmittedAt(k) # {}
          /\ (frags[k].type \in {LOG_MIDDLE, LOG_LAST} /\ OpenFirst(k) = {}) =>
                (EmittedAt(k) = {} /\ ~frags[k].after)

\* a batch split as FIRST + LAST across two physical blocks has been yielded with
\* the bytes of the unfragmented batch, and a LAST was discarded while idle
C1_Witness ==
    /\ \E e \in 1..Len(batches) :
          LET k == batches[e].at IN
            /\ k > 1
            /\ frags[k].type = LOG_LAST
            /\ frags[k - 1].type = LOG_FIRST
            /\ frags[k - 1].chunk < frags[k].chunk
            /\ batches[e].payload = frags[k - 1].payload \o frags[k].payload
            /\ Len(batches[e].payload) >= 2
    /\ \E k \in 1..Len(frags) :
          frags[k].type = LOG_LAST /\ OpenFirst(k) = {} /\ EmittedAt(k) = {}

\* ---- C11 ---------------------------------------------------------------

\* the value of the 7-bit groups of the bytes, the first the least significant
RECURSIVE GroupsValue(_)
GroupsValue(bytes) ==
    IF bytes = <<>> THEN 0
    ELSE (Head(bytes) % 128) + Shl(GroupsValue(Tail(bytes)), 7)

VarintReturned == varpc = "done"

\* the stream ends before a byte with the high bit clear and before max_bytes
\* bytes could be read
EndsBeforeTerminator ==
    /\ Len(stream) < VarintLimit(google32)
    /\ \A j \in 1..Len(stream) : stream[j] >= 128

\* C11, as stated: _read_le_varint returns None only when no byte is available
\* for the first byte; when the stream ends after one or more continuation bytes
\* and before max_bytes bytes, it returns the value accumulated so far.
C11_AsStated ==
    VarintReturned =>
        /\ vret[1].none => stream = <<>>
        /\ (EndsBeforeTerminator /\ stream # <<>>) =>
               ~vret[1].none /\ vret[1].value = GroupsValue(stream)

\* C11, as the code has it: _read_le_varint returns None exactly when the stream
\* ends before a byte with the high bit clear and before max_bytes bytes were
\* read, whether at the first byte or after continuation bytes; otherwise it
\* returns the value of the bytes it consumed.
C11_NoneAtAnyEndOfInput ==
    VarintReturned =>
        /\ vret[1].none <=> EndsBeforeTerminator
        /\ ~vret[1].none => vret[1].value = GroupsValue(SubSeq(stream, 1, vret[1].pos))

\* a stream of one continuation byte was read and None came back
C11_Witness ==
    /\ VarintReturned
    /\ stream = <<129>>
    /\ vpos = 1
    /\ vret[1].none

\* the loop taken one iteration at a time returns what read_le_varint computes
VarintAgrees ==
    VarintReturned => vret[1] = read_le_varint(stream, 0, google32)

\* ---- C12 ---------------------------------------------------------------

\* a record was in progress when fragment k was parsed
InRecordBefore(k) == k > 1 /\ frags[k - 1].after

KnownTypes == {LOG_FULL, LOG_FIRST, LOG_MIDDLE, LOG_LAST}

\* the step that parses one fragment, seen from a record in progress or from a
\* fragment of unknown type
RestartStep ==
    Len(frags') = Len(frags) + 1 =>
        LET k == Len(frags')
            f == frags'[k]
        IN  /\ (in_record /\ f.type = LOG_FULL) =>
                  /\ ~in_record'
                  /\ batches' = Append(batches, [payload |-> f.payload, at |-> k])
            /\ (in_record /\ f.type = LOG_FIRST) =>
                  /\ in_record'
                  /\ block' = f.payload
                  /\ batches' = batches
            /\ f.type \notin KnownTypes =>
                  /\ in_record' = in_record
                  /\ block' = block
                  /\ batches' = batches
                  /\ bpos' = Min(bpos + LOG_HEADER_SIZE + FragLength, Len(chunk))

\* after a FULL or a FIRST parsed while a record was in progress, the batches
\* yielded are made of that fragment and the ones after it only
NothingOfTheDiscarded ==
    \A k \in 1..Len(frags) :
        (InRecordBefore(k) /\ frags[k].type \in {LOG_FULL, LOG_FIRST}) =>
            \A e \in 1..Len(batches) :
                LET m == batches[e].at IN
                  m >= k =>
                    \/ /\ frags[m].type = LOG_FULL
                       /\ batches[e].payload = frags[m].payload
                    \/ /\ frags[m].type = LOG_LAST
                       /\ \E j \in OpenFirst(m) :
                             j >= k /\ batches[e].payload = JoinPayloads(j, m)

\* C12: while a record is in progress, a FULL fragment is yielded as its own
\* batch and leaves the reader idle, a FIRST fragment starts a buffer holding
\* its payload only and leaves the reader in the record; the payload buffered
\* before is in no batch yielded afterwards. A fragment of unknown type leaves
\* in_record and the buffer as they were, yields nothing and skips its length.
C12_RestartInRecord == []NothingOfTheDiscarded /\ [][RestartStep]_vars

\* a FIRST was parsed while a record was in progress, and the LAST after it
\* yielded a batch without the payload of the earlier FIRST
C12_Witness ==
    /\ Len(frags) = 3
    /\ frags[1].type = LOG_FIRST
    /\ frags[2].type = LOG_FIRST
    /\ frags[3].type = LOG_LAST
    /\ InRecordBefore(2)
    /\ block = frags[2].payload \o frags[3].payload
    /\ \E e \in 1..Len(batches) :
          /\ batches[e].at = 3
          /\ batches[e].payload = frags[2].payload \o frags[3].payload
          /\ Len(batches[e].payload) <
                Len(frags[1].payload) + Len(frags[2].payload) + Len(frags[3].payload)

\* ---- C13 ---------------------------------------------------------------

\* the table reader took the entry in hand
TableEntryTaken == origin = "table"

\* what C13 says of an entry with this key
ShortKeyLaw(key) ==
    /\ Len(key) <= 8 =>
          /\ recErr = ""
          /\ rec # <<>>
          /\ rec[1].state = "Unknown"
          /\ rec[1].from_ldb
    /\ Len(key) > 8 =>
          /\ rec # <<>>
          /\ rec[1].state = (IF key[Len(key) - 7] = 0 THEN "Deleted" ELSE "Live")

\* C13: for every block entry with a key of 8 bytes or fewer (0 to 7 included),
\* the table reader makes a Record of state Unknown, from a table, and raises
\* nothing; for a key longer than 8 bytes the state is Deleted when the byte
\* key[len(key) - 8] is 0 and Live otherwise.
C13_ShortKeyUnknown == TableEntryTaken => ShortKeyLaw(entry[1])

\* the same for the keys that hold a whole trailer (8 bytes or more)
ShortKeyLawFrom8 ==
    (TableEntryTaken /\ Len(entry[1]) >= 8) => ShortKeyLaw(entry[1])

\* a key shorter than 8 bytes makes no record: struct.unpack raises
ShortKeyRaises ==
    (TableEntryTaken /\ Len(entry[1]) < 8) => (rec = <<>> /\ recErr = "StructError")
====
